---- MODULE Spec2Model ----
(***************************************************************************)
(* Client authentication / session lifecycle of citizen.lawconnect.        *)
(*                                                                         *)
(* The auth slice (authSlice: initialState, the async thunks checkAuth,    *)
(* loginByEmailThunk, refreshTokenThunk, registerCitizen, fetchCurrentUser, *)
(* logoutThunk, and the reducers) is modelled as a state machine.  Every   *)
(* thunk is a process occupying a slot of `thunks`; one action is the code *)
(* a thunk runs between two awaits, together with the reducer of the       *)
(* lifecycle action it dispatches.  The remote API answers every request   *)
(* nondeterministically.                                                   *)
(*                                                                         *)
(* The screens (Register with its email verification by OTP,               *)
(* ForgotPassword, ResetPassword, Login behind ProtectedRoute) are         *)
(* modelled by one record of component state each; `screen` says which one *)
(* is mounted.  Spec runs the auth slice alone, SpecForms the three form   *)
(* screens, SpecGuard the route guard with the login flow.                 *)
(***************************************************************************)
EXTENDS Integers, Sequences, FiniteSets, TLC

(* ------------------------------ bounds --------------------------------- *)
\* number of distinct user emails known to the server
NumEmails == 2
\* number of thunks that may be in flight at the same time
MaxInFlight == 2
\* the clock runs from 0 to MaxTime
MaxTime == 1
\* number of access tokens the server issues in one run
MaxTokens == 2
\* lifetime of an access token, in clock ticks
TokenTTL == 1
\* a candidate password is padded with up to MaxFill copies of a character
MaxFill == 8

Emails == 1..NumEmails
Slots == 1..MaxInFlight

(* ------------------------------ values --------------------------------- *)
\* getAccessToken() returning null / undefined
NoToken == [id |-> -1, sub |-> 0, exp |-> -1]
\* state.user = null
NoUser == [email |-> 0, languagePreference |-> "null"]
\* state.error = null
Null == "null"
\* error.response?.data?.message being undefined (an Error without response)
Undefined == "undefined"
\* messages a failing server response may carry
ServerMessages == {Undefined, "", "Server message"}
\* languagePreference values of the profile DTO as the server sends it
ServerLanguages == {"", "rw"}

\* a thunk slot that holds no running thunk
Idle == [kind |-> "idle", pc |-> "idle", tok |-> NoToken, email |-> 0]
\* the value of `last` before any step
NoStep == [kind |-> "none", ev |-> "none", from |-> "none", resp |-> "none",
           msg |-> "none", tok |-> NoToken, citizen |-> NoUser, req |-> "none"]

VARIABLES
  token,            \* Token Store: the stored access token, or NoToken
  isAuthenticated,  \* AuthState.isAuthenticated
  user,             \* AuthState.user
  loading,          \* AuthState.loading
  error,            \* AuthState.error
  thunks,           \* the thunks in flight, with their position and locals
  now,              \* the current time
  nextId,           \* id of the next token the server issues
  last,             \* history: what the most recent step did
  screen,           \* the mounted screen ("none": the store alone)
  reg,              \* Register: its useState values and its requests in flight
  forgot,           \* ForgotPassword: the same
  reset,            \* ResetPassword: the same
  nav               \* the router: location.state.from and the redirects made

uiVars == <<screen, reg, forgot, reset, nav>>
vars == <<token, isAuthenticated, user, loading, error, thunks, now, nextId, last,
          screen, reg, forgot, reset, nav>>

(* ---------------------------- Token Store ------------------------------ *)
\* isExpired(token): the embedded expiry is at or before the current time
isTokenExpired(t) == t.exp <= now

\* a || b of JavaScript on message strings: undefined and "" are falsy
OrElse(m, fallback) == IF m \in {Undefined, ""} THEN fallback ELSE m

\* the profile DTO the server returns for an email
CitizenDto(e, lang) == [email |-> e, languagePreference |-> lang]

\* the token the server issues at the current time for subject e
IssuedToken(e) == [id |-> nextId, sub |-> e, exp |-> now + TokenTTL]

\* the lowest free slot: where a newly dispatched thunk runs
FreeSlot(s) == /\ thunks[s] = Idle
               /\ \A r \in Slots : r < s => thunks[r] # Idle

\* kind: the thunk; ev: the lifecycle action the step ends with ("await" while
\* the thunk goes on); from: the await the step resumed from; resp, msg: the
\* response it resumed with; tok, citizen: the token and profile the thunk
\* holds; req: the request the step issued
Step(kind, ev, from, resp, msg, tok, citizen, req) ==
  [kind |-> kind, ev |-> ev, from |-> from, resp |-> resp, msg |-> msg, tok |-> tok,
   citizen |-> citizen, req |-> req]

(* ------------------------------ strings -------------------------------- *)
\* the character at position i of a string (1-based)
Char(str, i) == SubSeq(str, i, i)

\* the characters \s, \d, [a-z] and [A-Z] of the regular expressions
Whitespace == {" ", "\t"}
Digits == {"0", "1", "2", "3", "4", "5", "6", "7", "8", "9"}
LowerCase == "abcdefghijklmnopqrstuvwxyz"
UpperCase == "ABCDEFGHIJKLMNOPQRSTUVWXYZ"
LowerLetters == {Char(LowerCase, i) : i \in 1..Len(LowerCase)}
UpperLetters == {Char(UpperCase, i) : i \in 1..Len(UpperCase)}

\* String.prototype.includes
Includes(str, sub) ==
  \E i \in 0..(Len(str) - Len(sub)) : SubSeq(str, i + 1, i + Len(sub)) = sub

\* String.prototype.toLowerCase
RECURSIVE ToLowerCase(_)
ToLowerCase(str) ==
  IF str = "" THEN ""
  ELSE LET c == Char(str, 1)
           lc == IF c \in UpperLetters
                   THEN Char(LowerCase, CHOOSE i \in 1..Len(UpperCase) : Char(UpperCase, i) = c)
                   ELSE c
       IN lc \o ToLowerCase(SubSeq(str, 2, Len(str)))

\* String.prototype.trim
RECURSIVE Trim(_)
Trim(str) ==
  IF str = "" THEN ""
  ELSE IF Char(str, 1) \in Whitespace THEN Trim(SubSeq(str, 2, Len(str)))
  ELSE IF Char(str, Len(str)) \in Whitespace THEN Trim(SubSeq(str, 1, Len(str) - 1))
  ELSE str

\* otp.join("")
RECURSIVE Join(_)
Join(parts) == IF parts = <<>> THEN "" ELSE Head(parts) \o Join(Tail(parts))

\* mutant: the pattern without the "." part, /^[^\s@]+@[^\s@]+$/
ValidEmailFormatNoDot(email) ==
  LET n == Len(email) IN
    /\ \A k \in 1..n : Char(email, k) \notin Whitespace
    /\ \E i \in 2..(n - 1) :
         /\ Char(email, i) = "@"
         /\ \A k \in 1..n : Char(email, k) = "@" => k = i

\* /^[^\s@]+@[^\s@]+\.[^\s@]+$/.test(email): no whitespace, exactly one "@"
\* with something before it, and after it a "." that has something on both
\* sides
ValidEmailFormat(email) ==
  LET n == Len(email) IN
    /\ \A k \in 1..n : Char(email, k) \notin Whitespace
    /\ \E i \in 2..n :
         /\ Char(email, i) = "@"
         /\ \A k \in 1..n : Char(email, k) = "@" => k = i
         /\ \E j \in (i + 2)..(n - 1) : Char(email, j) = "."

(* -------------------------- Register: values --------------------------- *)
\* number of entries of the OTP buffer
OtpLength == 6
\* minimum length of a password
MinPasswordLength == 8
\* minimum number of digits, spaces and dashes of a phone number
MinPhoneLength == 10

\* /^\+?[\d\s-]{10,}$/.test(phoneNumber)
ValidPhoneFormat(phone) ==
  LET body == IF phone # "" /\ Char(phone, 1) = "+"
                THEN SubSeq(phone, 2, Len(phone)) ELSE phone
  IN /\ Len(body) >= MinPhoneLength
     /\ \A k \in 1..Len(body) : Char(body, k) \in Digits \cup Whitespace \cup {"-"}

\* useState of Register after mount; sends and confirms are the /mail/send
\* and /mail/confirm requests in flight; sendSucceeded is history: a
\* /mail/send request of this screen has resolved as a success.  formErrors
\* and the toasts are only displayed and are not part of the model, nor is
\* the browser's own validation of the inputs.
RegisterInitial ==
  [formData |-> [fullName |-> "", email |-> "", phoneNumber |-> "",
                 languagePreference |-> "en", location |-> "", password |-> "",
                 confirmPassword |-> ""],
   isVerifying |-> FALSE,
   isEmailVerified |-> FALSE,
   showOtpModal |-> FALSE,
   otp |-> [i \in 1..OtpLength |-> ""],
   verificationError |-> "",
   verificationLoading |-> FALSE,
   registrationError |-> Null,
   sends |-> {},
   confirms |-> {},
   sendSucceeded |-> FALSE]

\* messages of the /mail/send response (data.message, or the error's)
MailSendMessages == ServerMessages \cup {"Email already verified."}
\* messages of the /mail/confirm response
MailConfirmMessages == ServerMessages \cup {"Email verified.", "Email verified"}

(* ----------------------- ForgotPassword: values ------------------------ *)
\* useState of ForgotPassword after mount; requests are the
\* /password/forgot-password requests in flight
ForgotPasswordInitial ==
  [email |-> "", isLoading |-> FALSE, isEmailSent |-> FALSE, error |-> Null,
   requests |-> {}]

(* ----------------------- ResetPassword: values ------------------------- *)
\* useState of ResetPassword at its first render, for the token of the URL
\* (searchParams.get("token"); "" stands for a missing or empty one, both
\* falsy).  effectRan: the mount effect has run.  requests are the
\* /password/reset-password requests in flight.
ResetPasswordInitial(tok) ==
  [token |-> tok,
   effectRan |-> FALSE,
   isLoading |-> FALSE,
   isSuccess |-> FALSE,
   error |-> Null,
   isTokenValid |-> TRUE,
   passwordStrength |-> Null,
   formData |-> [password |-> "", confirmPassword |-> ""],
   requests |-> {}]

\* the characters [@$!%*?&] of the password patterns
SpecialChars == {"@", "$", "!", "%", "*", "?", "&"}

\* messages of the password endpoints' responses
PasswordResetMessages == ServerMessages \cup {"Token has expired", "Invalid token"}

(* --------------------------- router: values ---------------------------- *)
\* path: location.pathname; from: location.state.from.pathname, "none" when
\* no location was recorded; shown: what the route of the location has
\* rendered ("pending" before its first render); useAuth: what calling the
\* default export of the auth slice does; loaded: initialState.isAuthenticated
\* as it was evaluated when the slice module was loaded
NoNavigation ==
  [path |-> "none", from |-> "none", shown |-> "none", useAuth |-> "none",
   loaded |-> FALSE]

(* ------------------------------ Init ----------------------------------- *)
\* A page load: the Token Store persists across reloads, so it holds nothing,
\* a token that is still valid, or one that has expired meanwhile.
StoredTokens ==
  {NoToken} \cup {[id |-> 0, sub |-> e, exp |-> x] : e \in Emails, x \in {0, TokenTTL}}

\* initialState of the slice, and no thunk dispatched yet
StoreInit ==
  /\ token \in StoredTokens
  /\ isAuthenticated = (token # NoToken)
  /\ user = NoUser
  /\ loading = FALSE
  /\ error = Null
  /\ thunks = [s \in Slots |-> Idle]
  /\ now = 0
  /\ nextId = 1
  /\ last = NoStep

\* the store alone: no screen is mounted
Init ==
  /\ StoreInit
  /\ screen = "none"
  /\ reg = RegisterInitial
  /\ forgot = ForgotPasswordInitial
  /\ reset = ResetPasswordInitial("")
  /\ nav = NoNavigation

(* ------------------------------ time ----------------------------------- *)
Tick ==
  /\ now < MaxTime
  /\ now' = now + 1
  /\ UNCHANGED <<token, isAuthenticated, user, loading, error, thunks, nextId, last>>

(* ------------------------------ reducers ------------------------------- *)
\* checkAuth.pending, loginByEmailThunk.pending, refreshTokenThunk.pending,
\* fetchCurrentUser.pending, logoutThunk.pending: all five are the same code
PendingReducer ==
  /\ loading' = TRUE
  /\ error' = Null
  /\ UNCHANGED <<isAuthenticated, user>>

\* mutant: the fulfilled reducer forgets to store the profile
CheckAuthFulfilledNoUser(citizen) ==
  /\ isAuthenticated' = TRUE
  /\ loading' = FALSE
  /\ error' = Null
  /\ UNCHANGED user

CheckAuthFulfilled(citizen) ==
  /\ isAuthenticated' = TRUE
  /\ user' = citizen
  /\ loading' = FALSE
  /\ error' = Null

\* mutant: the rejected reducer only records the error, as logoutThunk.rejected
CheckAuthRejectedKeepsSession(payload) ==
  /\ loading' = FALSE
  /\ error' = payload
  /\ token' = NoToken
  /\ UNCHANGED <<isAuthenticated, user>>

\* mutant: no removeAccessToken on rejection
CheckAuthRejectedKeepsToken(payload) ==
  /\ isAuthenticated' = FALSE
  /\ user' = NoUser
  /\ loading' = FALSE
  /\ error' = payload
  /\ UNCHANGED token

\* the reducer also empties the Token Store (removeAccessToken)
CheckAuthRejected(payload) ==
  /\ isAuthenticated' = FALSE
  /\ user' = NoUser
  /\ loading' = FALSE
  /\ error' = payload
  /\ token' = NoToken

\* mutant: a generation guard, the response of a login is discarded when
\* another login has already authenticated the session
LoginFulfilledFirstWins(citizen) ==
  /\ isAuthenticated' = TRUE
  /\ user' = IF isAuthenticated THEN user ELSE citizen
  /\ loading' = FALSE
  /\ error' = Null

LoginFulfilled(citizen) ==
  /\ isAuthenticated' = TRUE
  /\ user' = citizen
  /\ loading' = FALSE
  /\ error' = Null

\* mutant: no removeAccessToken on rejection
LoginRejectedKeepsToken(payload) ==
  /\ isAuthenticated' = FALSE
  /\ user' = NoUser
  /\ loading' = FALSE
  /\ error' = payload
  /\ UNCHANGED token

\* the reducer also empties the Token Store (removeAccessToken)
LoginRejected(payload) ==
  /\ isAuthenticated' = FALSE
  /\ user' = NoUser
  /\ loading' = FALSE
  /\ error' = payload
  /\ token' = NoToken

RefreshFulfilled(citizen) ==
  /\ loading' = FALSE
  /\ isAuthenticated' = TRUE
  /\ user' = citizen
  /\ UNCHANGED error

RefreshRejected(payload) ==
  /\ loading' = FALSE
  /\ error' = payload
  /\ isAuthenticated' = FALSE
  /\ user' = NoUser

FetchCurrentUserFulfilled(citizen) ==
  /\ loading' = FALSE
  /\ user' = citizen
  /\ UNCHANGED <<isAuthenticated, error>>

FetchCurrentUserRejected(payload) ==
  /\ loading' = FALSE
  /\ error' = payload
  /\ user' = NoUser
  /\ isAuthenticated' = FALSE

LogoutFulfilled ==
  /\ isAuthenticated' = FALSE
  /\ user' = NoUser
  /\ loading' = FALSE
  /\ error' = Null

LogoutRejected(payload) ==
  /\ loading' = FALSE
  /\ error' = payload
  /\ UNCHANGED <<isAuthenticated, user>>

\* mutant: a registration logs the user in
RegisterCitizenLogsIn ==
  /\ isAuthenticated' = TRUE
  /\ UNCHANGED <<user, loading, error>>

\* the slice has no case for registerCitizen.pending / fulfilled / rejected:
\* the three lifecycle actions reach no reducer of the auth state
RegisterCitizenReducer ==
  UNCHANGED <<isAuthenticated, user, loading, error>>

\* reducers.logout (the synchronous action); it empties the Token Store too
LogoutReducer ==
  /\ isAuthenticated' = FALSE
  /\ user' = NoUser
  /\ error' = Null
  /\ token' = NoToken
  /\ UNCHANGED loading

\* reducers.clearError
ClearErrorReducer ==
  /\ error' = Null
  /\ UNCHANGED <<isAuthenticated, user, loading>>

(* ------------------------------ checkAuth ------------------------------ *)
\* the thunk in slot s moves to the await pc, holding tok and email
Await(s, kind, pc, tok, email) ==
  thunks' = [thunks EXCEPT ![s] = [kind |-> kind, pc |-> pc, tok |-> tok, email |-> email]]

\* the thunk in slot s has settled
Settle(s) == thunks' = [thunks EXCEPT ![s] = Idle]

\* dispatch(checkAuth()): pending, then the thunk up to its first await
DispatchCheckAuth(s) ==
  /\ FreeSlot(s)
  /\ IF token = NoToken
       THEN \* no token: removeAccessToken, rejectWithValue
            /\ CheckAuthRejected("No authentication token found")
            /\ UNCHANGED thunks
            /\ last' = Step("checkAuth", "rejected", "dispatch", "none", "none",
                            NoToken, NoUser, "none")
       ELSE IF isTokenExpired(token)
         THEN \* await refreshAccessToken()
              /\ PendingReducer
              /\ Await(s, "checkAuth", "refresh", token, token.sub)
              /\ UNCHANGED token
              /\ last' = Step("checkAuth", "await", "dispatch", "none", "none",
                              token, NoUser, "refresh")
         ELSE \* the token is valid: await API.get(find-by-email, decoded.sub)
              /\ PendingReducer
              /\ Await(s, "checkAuth", "profile", token, token.sub)
              /\ UNCHANGED token
              /\ last' = Step("checkAuth", "await", "dispatch", "none", "none",
                              token, NoUser, "profile")
  /\ UNCHANGED <<now, nextId>>

\* the refresh request of checkAuth resolves
CheckAuthRefreshResponse(s) ==
  /\ thunks[s].kind = "checkAuth"
  /\ thunks[s].pc = "refresh"
  /\ \/ \* refreshResponse.data is a token: store it, fetch the profile of its subject
        \E e \in Emails :
          /\ nextId <= MaxTokens
          /\ token' = IssuedToken(e)
          /\ nextId' = nextId + 1
          /\ Await(s, "checkAuth", "profileNew", IssuedToken(e), e)
          /\ last' = Step("checkAuth", "await", "refresh", "ok", "none",
                          IssuedToken(e), NoUser, "profile")
          /\ UNCHANGED <<isAuthenticated, user, loading, error>>
     \/ \* refreshResponse.data is empty: the if is skipped and control falls
        \* through to the branch of the valid token, with the stored token
        /\ Await(s, "checkAuth", "profileOld", thunks[s].tok, thunks[s].tok.sub)
        /\ last' = Step("checkAuth", "await", "refresh", "nodata", "none",
                        thunks[s].tok, NoUser, "profile")
        /\ UNCHANGED <<token, nextId, isAuthenticated, user, loading, error>>
     \/ \* the request fails: catch (refreshError) removes the token and throws
        \* an Error without response; the outer catch rejects with ""
        \E m \in ServerMessages :
          /\ CheckAuthRejected(OrElse(Undefined, ""))
          /\ Settle(s)
          /\ last' = Step("checkAuth", "rejected", "refresh", "err", m,
                          thunks[s].tok, NoUser, "none")
          /\ UNCHANGED nextId
  /\ UNCHANGED now

\* a profile request of checkAuth resolves (after a refresh: profileNew; for the
\* stored token: profile, profileOld)
CheckAuthProfileResponse(s) ==
  /\ thunks[s].kind = "checkAuth"
  /\ thunks[s].pc \in {"profile", "profileNew", "profileOld"}
  /\ \/ \E lang \in ServerLanguages :
          /\ CheckAuthFulfilled(CitizenDto(thunks[s].email, lang))
          /\ last' = Step("checkAuth", "fulfilled", thunks[s].pc, "ok", "none",
                          thunks[s].tok, CitizenDto(thunks[s].email, lang), "none")
          /\ UNCHANGED token
     \/ \* catch (userError) / catch (refreshError): removeAccessToken and throw an
        \* Error without response; the outer catch rejects with ""
        \E m \in ServerMessages :
          /\ CheckAuthRejected(OrElse(Undefined, ""))
          /\ last' = Step("checkAuth", "rejected", thunks[s].pc, "err", m,
                          thunks[s].tok, NoUser, "none")
  /\ Settle(s)
  /\ UNCHANGED <<now, nextId>>

(* ------------------------------ login ---------------------------------- *)
\* dispatch(loginByEmailThunk({email, password})): pending, await loginByEmail
DispatchLogin(s, e) ==
  /\ FreeSlot(s)
  /\ PendingReducer
  /\ Await(s, "login", "login", NoToken, e)
  /\ last' = Step("login", "await", "dispatch", "none", "none", NoToken, NoUser, "login")
  /\ UNCHANGED <<token, now, nextId>>

\* the login request resolves
LoginResponse(s) ==
  /\ thunks[s].kind = "login"
  /\ thunks[s].pc = "login"
  /\ \/ \* setAccessToken(response.accessToken), then fetch the profile by email
        /\ nextId <= MaxTokens
        /\ token' = IssuedToken(thunks[s].email)
        /\ nextId' = nextId + 1
        /\ Await(s, "login", "profile", IssuedToken(thunks[s].email), thunks[s].email)
        /\ last' = Step("login", "await", "login", "ok", "none",
                        IssuedToken(thunks[s].email), NoUser, "profile")
        /\ UNCHANGED <<isAuthenticated, user, loading, error>>
     \/ \E m \in ServerMessages :
          /\ LoginRejected(OrElse(m, "Invalid credentials"))
          /\ Settle(s)
          /\ last' = Step("login", "rejected", "login", "err", m,
                          NoToken, NoUser, "none")
          /\ UNCHANGED nextId
  /\ UNCHANGED now

\* the profile request of the login resolves
LoginProfileResponse(s) ==
  /\ thunks[s].kind = "login"
  /\ thunks[s].pc = "profile"
  /\ \/ \E lang \in ServerLanguages :
          /\ LoginFulfilled(CitizenDto(thunks[s].email, lang))
          /\ last' = Step("login", "fulfilled", "profile", "ok", "none",
                          thunks[s].tok, CitizenDto(thunks[s].email, lang), "none")
          /\ UNCHANGED token
     \/ \E m \in ServerMessages :
          /\ LoginRejected(OrElse(m, "Invalid credentials"))
          /\ last' = Step("login", "rejected", "profile", "err", m,
                          thunks[s].tok, NoUser, "none")
  /\ Settle(s)
  /\ UNCHANGED <<now, nextId>>

(* ------------------------------ refresh -------------------------------- *)
\* the citizen refreshTokenThunk builds from the "me" response
RefreshCitizen(dto) ==
  [email |-> dto.email, languagePreference |-> OrElse(dto.languagePreference, "en")]

\* dispatch(refreshTokenThunk()): pending, await refreshAccessToken()
DispatchRefresh(s) ==
  /\ FreeSlot(s)
  /\ PendingReducer
  /\ Await(s, "refresh", "refresh", NoToken, 0)
  /\ last' = Step("refresh", "await", "dispatch", "none", "none", NoToken, NoUser, "refresh")
  /\ UNCHANGED <<token, now, nextId>>

\* the refresh request resolves
RefreshResponse(s) ==
  /\ thunks[s].kind = "refresh"
  /\ thunks[s].pc = "refresh"
  /\ \/ \* response.data is a token: store it and ask for /citizens/me
        \E e \in Emails :
          /\ nextId <= MaxTokens
          /\ token' = IssuedToken(e)
          /\ nextId' = nextId + 1
          /\ Await(s, "refresh", "me", IssuedToken(e), e)
          /\ last' = Step("refresh", "await", "refresh", "ok", "none",
                          IssuedToken(e), NoUser, "me")
          /\ UNCHANGED <<isAuthenticated, user, loading, error>>
     \/ \* response.data is empty: throw new Error("No access token received"),
        \* an Error without response
        /\ RefreshRejected(OrElse(Undefined, "Token refresh failed"))
        /\ Settle(s)
        /\ last' = Step("refresh", "rejected", "refresh", "nodata", "none",
                        NoToken, NoUser, "none")
        /\ UNCHANGED <<token, nextId>>
     \/ \E m \in ServerMessages :
          /\ RefreshRejected(OrElse(m, "Token refresh failed"))
          /\ Settle(s)
          /\ last' = Step("refresh", "rejected", "refresh", "err", m,
                          NoToken, NoUser, "none")
          /\ UNCHANGED <<token, nextId>>
  /\ UNCHANGED now

\* the /citizens/me request of the refresh resolves
RefreshMeResponse(s) ==
  /\ thunks[s].kind = "refresh"
  /\ thunks[s].pc = "me"
  /\ \/ \E lang \in ServerLanguages :
          /\ RefreshFulfilled(RefreshCitizen(CitizenDto(thunks[s].email, lang)))
          /\ last' = Step("refresh", "fulfilled", "me", "ok", "none", thunks[s].tok,
                          RefreshCitizen(CitizenDto(thunks[s].email, lang)), "none")
     \/ \E m \in ServerMessages :
          /\ RefreshRejected(OrElse(m, "Token refresh failed"))
          /\ last' = Step("refresh", "rejected", "me", "err", m,
                          thunks[s].tok, NoUser, "none")
  /\ Settle(s)
  /\ UNCHANGED <<token, now, nextId>>

(* --------------------------- registerCitizen --------------------------- *)
\* dispatch(registerCitizen(payload)): await API.post("/citizens/add", payload)
DispatchRegisterCitizen(s) ==
  /\ FreeSlot(s)
  /\ RegisterCitizenReducer
  /\ Await(s, "registerCitizen", "register", NoToken, 0)
  /\ last' = Step("registerCitizen", "await", "dispatch", "none", "none",
                  NoToken, NoUser, "register")
  /\ UNCHANGED <<token, now, nextId>>

\* the registration request resolves: fulfilled with response.data, or rejected
\* with the server's message or "Registration failed"
RegisterCitizenResponse(s) ==
  /\ thunks[s].kind = "registerCitizen"
  /\ thunks[s].pc = "register"
  /\ RegisterCitizenReducer
  /\ \/ last' = Step("registerCitizen", "fulfilled", "register", "ok", "none",
                     NoToken, NoUser, "none")
     \/ \E m \in ServerMessages :
          last' = Step("registerCitizen", "rejected", "register", "err",
                       OrElse(m, "Registration failed"), NoToken, NoUser, "none")
  /\ Settle(s)
  /\ UNCHANGED <<token, now, nextId>>

(* --------------------------- fetchCurrentUser -------------------------- *)
\* dispatch(fetchCurrentUser()): pending, then the thunk up to its first await
DispatchFetchCurrentUser(s) ==
  /\ FreeSlot(s)
  /\ IF token = NoToken
       THEN \* throw new Error("No access token found"): an Error without response
            /\ FetchCurrentUserRejected(OrElse(Undefined, "Failed to fetch user data"))
            /\ UNCHANGED thunks
            /\ last' = Step("fetchCurrentUser", "rejected", "dispatch", "none", "none",
                            NoToken, NoUser, "none")
       ELSE /\ PendingReducer
            /\ Await(s, "fetchCurrentUser", "profile", token, token.sub)
            /\ last' = Step("fetchCurrentUser", "await", "dispatch", "none", "none",
                            token, NoUser, "profile")
  /\ UNCHANGED <<token, now, nextId>>

\* the profile request of fetchCurrentUser resolves
FetchCurrentUserResponse(s) ==
  /\ thunks[s].kind = "fetchCurrentUser"
  /\ thunks[s].pc = "profile"
  /\ \/ \E lang \in ServerLanguages :
          /\ FetchCurrentUserFulfilled(CitizenDto(thunks[s].email, lang))
          /\ last' = Step("fetchCurrentUser", "fulfilled", "profile", "ok", "none",
                          thunks[s].tok, CitizenDto(thunks[s].email, lang), "none")
     \/ \E m \in ServerMessages :
          /\ FetchCurrentUserRejected(OrElse(m, "Failed to fetch user data"))
          /\ last' = Step("fetchCurrentUser", "rejected", "profile", "err", m,
                          thunks[s].tok, NoUser, "none")
  /\ Settle(s)
  /\ UNCHANGED <<token, now, nextId>>

(* ------------------------------ logout --------------------------------- *)
\* authService.logout(): asks the server to end the session and clears the
\* Token Store on the client whatever the server answers
LogoutService == token' = NoToken

\* dispatch(logoutThunk()): pending, await logout()
DispatchLogout(s) ==
  /\ FreeSlot(s)
  /\ PendingReducer
  /\ Await(s, "logout", "logout", NoToken, 0)
  /\ last' = Step("logout", "await", "dispatch", "none", "none", NoToken, NoUser, "logout")
  /\ UNCHANGED <<token, now, nextId>>

\* logout() resolves or throws
LogoutResponse(s) ==
  /\ thunks[s].kind = "logout"
  /\ thunks[s].pc = "logout"
  /\ LogoutService
  /\ \/ /\ LogoutFulfilled
        /\ last' = Step("logout", "fulfilled", "logout", "ok", "none",
                        NoToken, NoUser, "none")
     \/ /\ LogoutRejected("Logout failed")
        /\ last' = Step("logout", "rejected", "logout", "err", "none",
                        NoToken, NoUser, "none")
  /\ Settle(s)
  /\ UNCHANGED <<now, nextId>>

(* ------------------------- synchronous actions ------------------------- *)
\* dispatch(logout())
Logout ==
  /\ LogoutReducer
  /\ last' = Step("logoutAction", "sync", "dispatch", "none", "none",
                  NoToken, NoUser, "none")
  /\ UNCHANGED <<thunks, now, nextId>>

\* dispatch(clearError())
ClearError ==
  /\ ClearErrorReducer
  /\ last' = Step("clearError", "sync", "dispatch", "none", "none",
                  NoToken, NoUser, "none")
  /\ UNCHANGED <<token, thunks, now, nextId>>

Next ==
  \/ Tick /\ UNCHANGED uiVars
  \/ \E s \in Slots : DispatchCheckAuth(s) /\ UNCHANGED uiVars
  \/ \E s \in Slots : CheckAuthRefreshResponse(s) /\ UNCHANGED uiVars
  \/ \E s \in Slots : CheckAuthProfileResponse(s) /\ UNCHANGED uiVars
  \/ \E s \in Slots, e \in Emails : DispatchLogin(s, e) /\ UNCHANGED uiVars
  \/ \E s \in Slots : LoginResponse(s) /\ UNCHANGED uiVars
  \/ \E s \in Slots : LoginProfileResponse(s) /\ UNCHANGED uiVars
  \/ \E s \in Slots : DispatchRefresh(s) /\ UNCHANGED uiVars
  \/ \E s \in Slots : RefreshResponse(s) /\ UNCHANGED uiVars
  \/ \E s \in Slots : RefreshMeResponse(s) /\ UNCHANGED uiVars
  \/ \E s \in Slots : DispatchRegisterCitizen(s) /\ UNCHANGED uiVars
  \/ \E s \in Slots : RegisterCitizenResponse(s) /\ UNCHANGED uiVars
  \/ \E s \in Slots : DispatchFetchCurrentUser(s) /\ UNCHANGED uiVars
  \/ \E s \in Slots : FetchCurrentUserResponse(s) /\ UNCHANGED uiVars
  \/ \E s \in Slots : DispatchLogout(s) /\ UNCHANGED uiVars
  \/ \E s \in Slots : LogoutResponse(s) /\ UNCHANGED uiVars
  \/ Logout /\ UNCHANGED uiVars
  \/ ClearError /\ UNCHANGED uiVars

Spec == Init /\ [][Next]_vars

(* ======================== Register (registration) ====================== *)
\* a handler of a screen leaves the store alone
StoreFrame ==
  UNCHANGED <<token, isAuthenticated, user, loading, error, thunks, now, nextId>>

\* mutant: validateForm without the "Email must be verified" check
RegisterValidateFormNoVerification(formData, isEmailVerified) ==
  /\ ~(formData.email = "" /\ formData.phoneNumber = "")
  /\ ~(formData.email # "" /\ ~ValidEmailFormat(formData.email))
  /\ ~(formData.phoneNumber # "" /\ ~ValidPhoneFormat(formData.phoneNumber))
  /\ ~(Len(formData.password) < MinPasswordLength)
  /\ ~(formData.password # formData.confirmPassword)

\* Register.validateForm: isValid for the form data and verification flag
RegisterValidateForm(formData, isEmailVerified) ==
  /\ ~(formData.email = "" /\ formData.phoneNumber = "")
  /\ ~(formData.email # "" /\ ~ValidEmailFormat(formData.email))
  /\ ~(formData.phoneNumber # "" /\ ~ValidPhoneFormat(formData.phoneNumber))
  /\ ~(Len(formData.password) < MinPasswordLength)
  /\ ~(formData.password # formData.confirmPassword)
  /\ ~(formData.email # "" /\ ~isEmailVerified)

\* mutant: every change of a field resets the verification of the email
RegisterHandleChangeResetsAlways(name, value) ==
  /\ screen = "register"
  /\ reg' = [reg EXCEPT !.formData[name] = value,
                        !.isEmailVerified = FALSE]
  /\ last' = Step("handleChange", "sync", "event", "none", "none",
                  NoToken, NoUser, "none")
  /\ StoreFrame
  /\ UNCHANGED <<screen, forgot, reset, nav>>

\* Register.handleChange: an input of the form changes
RegisterHandleChange(name, value) ==
  /\ screen = "register"
  /\ reg' = [reg EXCEPT !.formData[name] = value,
                        !.isEmailVerified = IF name = "email" THEN FALSE ELSE @]
  /\ last' = Step("handleChange", "sync", "event", "none", "none",
                  NoToken, NoUser, "none")
  /\ StoreFrame
  /\ UNCHANGED <<screen, forgot, reset, nav>>

\* onValueChange of the language Select: only formData.languagePreference
HandleLanguageChange(value) ==
  /\ screen = "register"
  /\ reg' = [reg EXCEPT !.formData.languagePreference = value]
  /\ last' = Step("languageChange", "sync", "event", "none", "none",
                  NoToken, NoUser, "none")
  /\ StoreFrame
  /\ UNCHANGED <<screen, forgot, reset, nav>>

\* the "Verify Email" button and the "Resend OTP" button of the OTP dialog
CanSendVerification ==
  \/ reg.formData.email # "" /\ ~reg.verificationLoading /\ ~reg.isEmailVerified
  \/ reg.showOtpModal /\ ~reg.verificationLoading

\* Register.handleSendVerification up to its await
HandleSendVerification ==
  /\ screen = "register"
  /\ CanSendVerification
  /\ IF reg.formData.email = "" \/ ~ValidEmailFormat(reg.formData.email)
       THEN \* setFormErrors, return
            /\ UNCHANGED reg
            /\ last' = Step("handleSendVerification", "return", "event", "none",
                            "none", NoToken, NoUser, "none")
       ELSE \* await API.post("/mail/send", {email})
            /\ reg' = [reg EXCEPT !.verificationLoading = TRUE,
                                  !.verificationError = "",
                                  !.sends = @ \cup {[email |-> reg.formData.email]}]
            /\ last' = Step("handleSendVerification", "await", "event", "none",
                            "none", NoToken, NoUser, "/mail/send")
  /\ StoreFrame
  /\ UNCHANGED <<screen, forgot, reset, nav>>

\* mutant: a failed send opens the OTP input all the same
SendVerificationResponseOpensOnError(r) ==
  /\ screen = "register"
  /\ r \in reg.sends
  /\ \E resp \in {"ok", "err"}, m \in MailSendMessages :
       /\ last' = Step("handleSendVerification", "done", "/mail/send", resp, m,
                       NoToken, NoUser, "none")
       /\ LET alreadyVerified == m # Undefined /\ Includes(m, "already verified")
              settled == [reg EXCEPT !.verificationLoading = FALSE,
                                     !.sends = @ \ {r},
                                     !.sendSucceeded = @ \/ resp = "ok"]
          IN IF resp = "ok"
               THEN IF m \in {Undefined, ""}
                      THEN reg' = settled
                      ELSE IF alreadyVerified
                        THEN reg' = [settled EXCEPT !.isEmailVerified = TRUE]
                        ELSE reg' = [settled EXCEPT !.showOtpModal = TRUE]
               ELSE IF alreadyVerified
                      THEN reg' = [settled EXCEPT !.isEmailVerified = TRUE]
                      ELSE reg' = [settled EXCEPT !.showOtpModal = TRUE,
                                                  !.verificationError =
                                     OrElse(m, "Failed to send verification email")]
  /\ StoreFrame
  /\ UNCHANGED <<screen, forgot, reset, nav>>

\* mutant: the catch branch does not look for "already verified"
SendVerificationResponseErrorShown(r) ==
  /\ screen = "register"
  /\ r \in reg.sends
  /\ \E resp \in {"ok", "err"}, m \in MailSendMessages :
       /\ last' = Step("handleSendVerification", "done", "/mail/send", resp, m,
                       NoToken, NoUser, "none")
       /\ LET alreadyVerified == m # Undefined /\ Includes(m, "already verified")
              settled == [reg EXCEPT !.verificationLoading = FALSE,
                                     !.sends = @ \ {r},
                                     !.sendSucceeded = @ \/ resp = "ok"]
          IN IF resp = "ok"
               THEN IF m \in {Undefined, ""}
                      THEN reg' = settled
                      ELSE IF alreadyVerified
                        THEN reg' = [settled EXCEPT !.isEmailVerified = TRUE]
                        ELSE reg' = [settled EXCEPT !.showOtpModal = TRUE]
               ELSE reg' = [settled EXCEPT !.verificationError =
                              OrElse(m, "Failed to send verification email")]
  /\ StoreFrame
  /\ UNCHANGED <<screen, forgot, reset, nav>>

\* the /mail/send request r resolves: try, catch and finally of
\* handleSendVerification
SendVerificationResponse(r) ==
  /\ screen = "register"
  /\ r \in reg.sends
  /\ \E resp \in {"ok", "err"}, m \in MailSendMessages :
       /\ last' = Step("handleSendVerification", "done", "/mail/send", resp, m,
                       NoToken, NoUser, "none")
       /\ LET alreadyVerified == m # Undefined /\ Includes(m, "already verified")
              settled == [reg EXCEPT !.verificationLoading = FALSE,
                                     !.sends = @ \ {r},
                                     !.sendSucceeded = @ \/ resp = "ok"]
          IN IF resp = "ok"
               THEN IF m \in {Undefined, ""}
                      THEN reg' = settled
                      ELSE IF alreadyVerified
                        THEN reg' = [settled EXCEPT !.isEmailVerified = TRUE]
                        ELSE reg' = [settled EXCEPT !.showOtpModal = TRUE]
               ELSE IF alreadyVerified
                      THEN reg' = [settled EXCEPT !.isEmailVerified = TRUE]
                      ELSE reg' = [settled EXCEPT !.verificationError =
                                     OrElse(m, "Failed to send verification email")]
  /\ StoreFrame
  /\ UNCHANGED <<screen, forgot, reset, nav>>

\* mutant: the keystroke filter takes any single character
HandleOtpChangeAnyChar(index, value) ==
  /\ screen = "register"
  /\ reg.showOtpModal
  /\ IF Len(value) <= 1
       THEN reg' = [reg EXCEPT !.otp[index + 1] = value]
       ELSE UNCHANGED reg
  /\ last' = Step("handleOtpChange", "sync", "event", "none", "none",
                  NoToken, NoUser, "none")
  /\ StoreFrame
  /\ UNCHANGED <<screen, forgot, reset, nav>>

\* Register.handleOtpChange(index, value): a keystroke in OTP input index
\* (0-based); only the empty string and single digits are taken
HandleOtpChange(index, value) ==
  /\ screen = "register"
  /\ reg.showOtpModal
  /\ IF value = "" \/ (Len(value) = 1 /\ value \in Digits)
       THEN reg' = [reg EXCEPT !.otp[index + 1] = value]
       ELSE UNCHANGED reg
  /\ last' = Step("handleOtpChange", "sync", "event", "none", "none",
                  NoToken, NoUser, "none")
  /\ StoreFrame
  /\ UNCHANGED <<screen, forgot, reset, nav>>

\* Register.handleOtpPaste: a paste into the first OTP input; only exactly
\* six digits (after trim) are taken
HandleOtpPaste(text) ==
  /\ screen = "register"
  /\ reg.showOtpModal
  /\ LET pastedData == Trim(text) IN
       IF Len(pastedData) = OtpLength
          /\ \A k \in 1..Len(pastedData) : Char(pastedData, k) \in Digits
         THEN reg' = [reg EXCEPT !.otp = [i \in 1..OtpLength |-> Char(pastedData, i)]]
         ELSE UNCHANGED reg
  /\ last' = Step("handleOtpPaste", "sync", "event", "none", "none",
                  NoToken, NoUser, "none")
  /\ StoreFrame
  /\ UNCHANGED <<screen, forgot, reset, nav>>

\* the "Verify OTP" button of the OTP dialog
CanVerifyOtp ==
  /\ reg.showOtpModal
  /\ ~(reg.isVerifying \/ Len(Join(reg.otp)) # OtpLength)

\* Register.handleVerifyOtp up to its await
HandleVerifyOtp ==
  /\ screen = "register"
  /\ CanVerifyOtp
  /\ LET otpValue == Join(reg.otp) IN
       IF Len(otpValue) # OtpLength
         THEN /\ reg' = [reg EXCEPT !.verificationError =
                                      "Please enter a valid 6-digit OTP"]
              /\ last' = Step("handleVerifyOtp", "return", "event", "none", "none",
                              NoToken, NoUser, "none")
         ELSE \* await API.post("/mail/confirm", {email, otp})
              /\ reg' = [reg EXCEPT !.isVerifying = TRUE,
                                    !.verificationError = "",
                                    !.confirms = @ \cup {[email |-> reg.formData.email,
                                                          otp |-> otpValue]}]
              /\ last' = Step("handleVerifyOtp", "await", "event", "none", "none",
                              NoToken, NoUser, "/mail/confirm")
  /\ StoreFrame
  /\ UNCHANGED <<screen, forgot, reset, nav>>

\* mutant: any success response with a message verifies the email
VerifyOtpResponseAnyMessage(r) ==
  /\ screen = "register"
  /\ r \in reg.confirms
  /\ \E resp \in {"ok", "err"}, m \in MailConfirmMessages :
       /\ last' = Step("handleVerifyOtp", "done", "/mail/confirm", resp, m,
                       NoToken, NoUser, "none")
       /\ LET settled == [reg EXCEPT !.isVerifying = FALSE, !.confirms = @ \ {r}]
          IN IF resp = "ok"
               THEN IF m \notin {Undefined, ""}
                      THEN reg' = [settled EXCEPT !.isEmailVerified = TRUE,
                                                  !.showOtpModal = FALSE]
                      ELSE reg' = [settled EXCEPT !.verificationError =
                                     OrElse(m, "Invalid OTP")]
               ELSE reg' = [settled EXCEPT !.verificationError =
                              OrElse(m, "Verification failed")]
  /\ StoreFrame
  /\ UNCHANGED <<screen, forgot, reset, nav>>

\* mutant: without the finally block, isVerifying is reset on success only
VerifyOtpResponseNoFinally(r) ==
  /\ screen = "register"
  /\ r \in reg.confirms
  /\ \E resp \in {"ok", "err"}, m \in MailConfirmMessages :
       /\ last' = Step("handleVerifyOtp", "done", "/mail/confirm", resp, m,
                       NoToken, NoUser, "none")
       /\ LET settled == [reg EXCEPT !.confirms = @ \ {r}]
          IN IF resp = "ok"
               THEN IF m = "Email verified."
                      THEN reg' = [settled EXCEPT !.isEmailVerified = TRUE,
                                                  !.showOtpModal = FALSE,
                                                  !.isVerifying = FALSE]
                      ELSE reg' = [settled EXCEPT !.verificationError =
                                     OrElse(m, "Invalid OTP")]
               ELSE reg' = [settled EXCEPT !.verificationError =
                              OrElse(m, "Verification failed")]
  /\ StoreFrame
  /\ UNCHANGED <<screen, forgot, reset, nav>>

\* the /mail/confirm request r resolves: try, catch and finally of
\* handleVerifyOtp
VerifyOtpResponse(r) ==
  /\ screen = "register"
  /\ r \in reg.confirms
  /\ \E resp \in {"ok", "err"}, m \in MailConfirmMessages :
       /\ last' = Step("handleVerifyOtp", "done", "/mail/confirm", resp, m,
                       NoToken, NoUser, "none")
       /\ LET settled == [reg EXCEPT !.isVerifying = FALSE, !.confirms = @ \ {r}]
          IN IF resp = "ok"
               THEN IF m = "Email verified."
                      THEN reg' = [settled EXCEPT !.isEmailVerified = TRUE,
                                                  !.showOtpModal = FALSE]
                      ELSE reg' = [settled EXCEPT !.verificationError =
                                     OrElse(m, "Invalid OTP")]
               ELSE reg' = [settled EXCEPT !.verificationError =
                              OrElse(m, "Verification failed")]
  /\ StoreFrame
  /\ UNCHANGED <<screen, forgot, reset, nav>>

\* the OTP dialog is closed: Cancel (setShowOtpModal(false)) or a dismissal
\* (onOpenChange(false))
CloseOtpModal ==
  /\ screen = "register"
  /\ reg.showOtpModal
  /\ reg' = [reg EXCEPT !.showOtpModal = FALSE]
  /\ last' = Step("closeOtpModal", "sync", "event", "none", "none",
                  NoToken, NoUser, "none")
  /\ StoreFrame
  /\ UNCHANGED <<screen, forgot, reset, nav>>

\* the message handleRegister shows for a rejection payload
RegistrationErrorMessage(payload) ==
  IF \/ Includes(ToLowerCase(payload), "citizen already exists")
     \/ Includes(ToLowerCase(payload), "already registered")
     \/ Includes(ToLowerCase(payload), "already exists")
    THEN "This email or phone number is already registered. Please log in or use a different contact method."
    ELSE payload

\* Register.handleRegister up to its await: validateForm, clearError, and the
\* dispatch of registerCitizen (which has no pending reducer) in slot s.  The
\* submit button is disabled while the store is loading.
HandleRegister(s) ==
  /\ screen = "register"
  /\ ~loading
  /\ FreeSlot(s)
  /\ IF ~RegisterValidateForm(reg.formData, reg.isEmailVerified)
       THEN /\ UNCHANGED <<reg, isAuthenticated, user, loading, error, thunks>>
            /\ last' = Step("handleRegister", "return", "event", "none", "none",
                            NoToken, NoUser, "none")
       ELSE /\ ClearErrorReducer
            /\ reg' = [reg EXCEPT !.registrationError = Null]
            /\ Await(s, "registerCitizen", "register", NoToken, 0)
            /\ last' = Step("handleRegister", "await", "event", "none", "none",
                            NoToken, NoUser, "register")
  /\ UNCHANGED <<token, now, nextId>>
  /\ UNCHANGED <<screen, forgot, reset, nav>>

\* the registerCitizen thunk of slot s settles and handleRegister resumes:
\* fulfilled navigates to /login (Register unmounts, its state is discarded),
\* rejected records the registration error
HandleRegisterSettled(s) ==
  /\ screen = "register"
  /\ RegisterCitizenResponse(s)
  /\ IF last'.ev = "fulfilled"
       THEN /\ screen' = "login"
            /\ reg' = RegisterInitial
            /\ nav' = [nav EXCEPT !.path = "/login"]
       ELSE /\ reg' = [reg EXCEPT !.registrationError =
                                    RegistrationErrorMessage(last'.msg)]
            /\ UNCHANGED <<screen, nav>>
  /\ UNCHANGED <<forgot, reset>>


(* ============================ ForgotPassword =========================== *)
\* setEmail(e.target.value): the form is rendered while no email was sent
ForgotSetEmail(value) ==
  /\ screen = "forgot"
  /\ ~forgot.isEmailSent
  /\ forgot' = [forgot EXCEPT !.email = value]
  /\ last' = Step("setEmail", "sync", "event", "none", "none", NoToken, NoUser, "none")
  /\ StoreFrame
  /\ UNCHANGED <<screen, reg, reset, nav>>

\* ForgotPassword.handleSubmit up to its await; the submit button is disabled
\* while isLoading
ForgotHandleSubmit ==
  /\ screen = "forgot"
  /\ ~forgot.isEmailSent
  /\ ~forgot.isLoading
  /\ IF forgot.email = "" \/ ~ValidEmailFormat(forgot.email)
       THEN /\ forgot' = [forgot EXCEPT !.error = "Please enter a valid email address"]
            /\ last' = Step("forgotSubmit", "return", "event", "none", "none",
                            NoToken, NoUser, "none")
       ELSE \* await API.post("/password/forgot-password", {email})
            /\ forgot' = [forgot EXCEPT !.error = Null,
                                        !.isLoading = TRUE,
                                        !.requests = @ \cup {[email |-> forgot.email]}]
            /\ last' = Step("forgotSubmit", "await", "event", "none", "none",
                            NoToken, NoUser, "/password/forgot-password")
  /\ StoreFrame
  /\ UNCHANGED <<screen, reg, reset, nav>>

\* mutant: a failed request shows the confirmation display all the same
ForgotResponseSentOnError(r) ==
  /\ screen = "forgot"
  /\ r \in forgot.requests
  /\ \E resp \in {"ok", "err"}, m \in ServerMessages :
       /\ last' = Step("forgotSubmit", "done", "/password/forgot-password", resp, m,
                       NoToken, NoUser, "none")
       /\ LET settled == [forgot EXCEPT !.isLoading = FALSE, !.requests = @ \ {r}]
          IN IF resp = "ok"
               THEN IF m \in {Undefined, ""}
                      THEN forgot' = settled
                      ELSE forgot' = [settled EXCEPT !.isEmailSent = TRUE]
               ELSE forgot' = [settled EXCEPT !.isEmailSent = TRUE,
                                              !.error =
                                 OrElse(m, "Failed to send reset email")]
  /\ StoreFrame
  /\ UNCHANGED <<screen, reg, reset, nav>>

\* the /password/forgot-password request r resolves: try, catch and finally
ForgotResponse(r) ==
  /\ screen = "forgot"
  /\ r \in forgot.requests
  /\ \E resp \in {"ok", "err"}, m \in ServerMessages :
       /\ last' = Step("forgotSubmit", "done", "/password/forgot-password", resp, m,
                       NoToken, NoUser, "none")
       /\ LET settled == [forgot EXCEPT !.isLoading = FALSE, !.requests = @ \ {r}]
          IN IF resp = "ok"
               THEN IF m \in {Undefined, ""}
                      THEN forgot' = settled
                      ELSE forgot' = [settled EXCEPT !.isEmailSent = TRUE]
               ELSE forgot' = [settled EXCEPT !.error =
                                 OrElse(m, "Failed to send reset email")]
  /\ StoreFrame
  /\ UNCHANGED <<screen, reg, reset, nav>>

(* ============================ ResetPassword ============================ *)
\* the characters of a string
CharsOf(str) == {Char(str, i) : i \in 1..Len(str)}

\* mutant: four passed checks already rate as strong
checkPasswordStrengthFourIsStrong(password) ==
  LET chars == CharsOf(password)
      passedChecks ==
        Cardinality({c \in {"hasUppercase", "hasLowercase", "hasNumber",
                            "hasSpecialChar", "isLongEnough"} :
          \/ c = "hasUppercase" /\ chars \cap UpperLetters # {}
          \/ c = "hasLowercase" /\ chars \cap LowerLetters # {}
          \/ c = "hasNumber" /\ chars \cap Digits # {}
          \/ c = "hasSpecialChar" /\ chars \cap SpecialChars # {}
          \/ c = "isLongEnough" /\ Len(password) >= MinPasswordLength})
  IN IF passedChecks <= 2 THEN "weak"
     ELSE IF passedChecks <= 3 THEN "medium"
     ELSE "strong"

\* ResetPassword.checkPasswordStrength
checkPasswordStrength(password) ==
  LET chars == CharsOf(password)
      passedChecks ==
        Cardinality({c \in {"hasUppercase", "hasLowercase", "hasNumber",
                            "hasSpecialChar", "isLongEnough"} :
          \/ c = "hasUppercase" /\ chars \cap UpperLetters # {}
          \/ c = "hasLowercase" /\ chars \cap LowerLetters # {}
          \/ c = "hasNumber" /\ chars \cap Digits # {}
          \/ c = "hasSpecialChar" /\ chars \cap SpecialChars # {}
          \/ c = "isLongEnough" /\ Len(password) >= MinPasswordLength})
  IN IF passedChecks <= 2 THEN "weak"
     ELSE IF passedChecks <= 4 THEN "medium"
     ELSE "strong"

\* passwordRegex.test(password):
\* /^(?=.*[a-z])(?=.*[A-Z])(?=.*\d)(?=.*[@$!%*?&])[A-Za-z\d@$!%*?&]{8,}$/
PasswordRegexTest(password) ==
  LET chars == CharsOf(password) IN
    /\ chars \cap LowerLetters # {}
    /\ chars \cap UpperLetters # {}
    /\ chars \cap Digits # {}
    /\ chars \cap SpecialChars # {}
    /\ chars \subseteq LowerLetters \cup UpperLetters \cup Digits \cup SpecialChars
    /\ Len(password) >= MinPasswordLength

\* ResetPassword.validateForm: the error it sets, Null when it returns true
ResetValidationError(formData) ==
  IF formData.password = "" \/ Len(formData.password) < MinPasswordLength
    THEN "Password must be at least 8 characters long"
  ELSE IF ~PasswordRegexTest(formData.password)
    THEN "Password must include uppercase, lowercase, number, and special character"
  ELSE IF formData.password # formData.confirmPassword
    THEN "Passwords do not match"
  ELSE Null

\* mutant: the form is rendered whatever isTokenValid says
ResetFormShownAlways == ~reset.isSuccess

\* the form of ResetPassword is rendered: neither the invalid-link display nor
\* the success display is shown
ResetFormShown == reset.isTokenValid /\ ~reset.isSuccess

\* the mount effect of ResetPassword: without a token the link is invalid
ResetMountEffect ==
  /\ screen = "reset"
  /\ ~reset.effectRan
  /\ reset' = IF reset.token = ""
                THEN [reset EXCEPT !.effectRan = TRUE,
                                   !.isTokenValid = FALSE,
                                   !.error = "Invalid or missing reset token"]
                ELSE [reset EXCEPT !.effectRan = TRUE]
  /\ last' = Step("resetMount", "sync", "effect", "none", "none", NoToken, NoUser, "none")
  /\ StoreFrame
  /\ UNCHANGED <<screen, reg, forgot, nav>>

\* ResetPassword.handleChange
ResetHandleChange(name, value) ==
  /\ screen = "reset"
  /\ ResetFormShown
  /\ reset' = [reset EXCEPT !.formData[name] = value,
                            !.passwordStrength =
                               IF name = "password" THEN checkPasswordStrength(value) ELSE @]
  /\ last' = Step("resetChange", "sync", "event", "none", "none", NoToken, NoUser, "none")
  /\ StoreFrame
  /\ UNCHANGED <<screen, reg, forgot, nav>>

\* ResetPassword.handleSubmit up to its await; the submit button is disabled
\* while isLoading
ResetHandleSubmit ==
  /\ screen = "reset"
  /\ ResetFormShown
  /\ ~reset.isLoading
  /\ IF ResetValidationError(reset.formData) # Null
       THEN /\ reset' = [reset EXCEPT !.error = ResetValidationError(reset.formData)]
            /\ last' = Step("resetSubmit", "return", "event", "none", "none",
                            NoToken, NoUser, "none")
       ELSE IF reset.token = ""
         THEN /\ reset' = [reset EXCEPT !.error = Null]
              /\ last' = Step("resetSubmit", "return", "event", "none", "none",
                              NoToken, NoUser, "none")
         ELSE \* await API.post("/password/reset-password", {token, ...})
              /\ reset' = [reset EXCEPT !.error = Null,
                                        !.isLoading = TRUE,
                                        !.requests = @ \cup
                                          {[token |-> reset.token,
                                            password |-> reset.formData.password,
                                            confirmPassword |->
                                              reset.formData.confirmPassword]}]
              /\ last' = Step("resetSubmit", "await", "event", "none", "none",
                              NoToken, NoUser, "/password/reset-password")
  /\ StoreFrame
  /\ UNCHANGED <<screen, reg, forgot, nav>>

\* the /password/reset-password request r resolves: try, catch and finally
ResetResponse(r) ==
  /\ screen = "reset"
  /\ r \in reset.requests
  /\ \E resp \in {"ok", "err"}, m \in PasswordResetMessages :
       /\ last' = Step("resetSubmit", "done", "/password/reset-password", resp, m,
                       NoToken, NoUser, "none")
       /\ LET settled == [reset EXCEPT !.isLoading = FALSE, !.requests = @ \ {r}]
              errorMessage == OrElse(m, "Failed to reset password")
          IN IF resp = "ok"
               THEN IF m \in {Undefined, ""}
                      THEN reset' = settled
                      ELSE reset' = [settled EXCEPT !.isSuccess = TRUE]
               ELSE reset' = [settled EXCEPT
                                !.error = errorMessage,
                                !.isTokenValid =
                                   IF \/ Includes(errorMessage, "expired")
                                      \/ Includes(errorMessage, "invalid")
                                     THEN FALSE ELSE @]
  /\ StoreFrame
  /\ UNCHANGED <<screen, reg, forgot, nav>>

\* the timer set after a successful reset fires: navigate("/login")
ResetRedirectToLogin ==
  /\ screen = "reset"
  /\ reset.isSuccess
  /\ screen' = "login"
  /\ reset' = ResetPasswordInitial("")
  /\ nav' = [nav EXCEPT !.path = "/login"]
  /\ last' = Step("resetRedirect", "sync", "timer", "none", "none", NoToken, NoUser, "none")
  /\ StoreFrame
  /\ UNCHANGED <<reg, forgot>>

(* ------------------- the registration screen as a whole ---------------- *)
\* a visitor without a session opens /register
InitRegister ==
  /\ StoreInit
  /\ token = NoToken
  /\ screen = "register"
  /\ reg = RegisterInitial
  /\ forgot = ForgotPasswordInitial
  /\ reset = ResetPasswordInitial("")
  /\ nav = [NoNavigation EXCEPT !.path = "/register"]

\* what the visitor types into the registration form: field and value
RegisterInputs ==
  {<<"email", "">>, <<"email", "a@b.c">>, <<"email", "a@b">>,
   <<"phoneNumber", "+1111111111">>, <<"phoneNumber", "123">>,
   <<"password", "Abcdef1@">>, <<"password", "Ab1@">>,
   <<"confirmPassword", "Abcdef1@">>}

NextRegister ==
  \/ \E input \in RegisterInputs : RegisterHandleChange(input[1], input[2])
  \/ HandleSendVerification
  \/ \E r \in reg.sends : SendVerificationResponse(r)
  \/ HandleOtpPaste("111111")
  \/ HandleVerifyOtp
  \/ \E r \in reg.confirms : VerifyOtpResponse(r)
  \/ CloseOtpModal
  \/ \E s \in Slots : HandleRegister(s)
  \/ \E s \in Slots : HandleRegisterSettled(s)

SpecRegister == InitRegister /\ [][NextRegister]_vars

\* ResetPassword.handleBack: navigate("/forgot-password"); ResetPassword
\* unmounts and its state is discarded
ResetHandleBack ==
  /\ screen = "reset"
  /\ screen' = "forgot"
  /\ reset' = ResetPasswordInitial("")
  /\ forgot' = ForgotPasswordInitial
  /\ nav' = [nav EXCEPT !.path = "/forgot-password"]
  /\ last' = Step("resetBack", "sync", "event", "none", "none", NoToken, NoUser, "none")
  /\ StoreFrame
  /\ UNCHANGED reg

(* --------------------------- the form screens -------------------------- *)
\* the route of a screen
ScreenPath(scr) ==
  CASE scr = "register" -> "/register"
    [] scr = "forgot" -> "/forgot-password"
    [] scr = "reset" -> "/reset-password"
    [] scr = "login" -> "/login"
    [] OTHER -> "none"

\* the token parameter of the reset link: missing, or present
ResetTokens == {"", "reset-token"}

\* a visitor without a session opens /register, /forgot-password or
\* /reset-password?token=...
InitForms ==
  /\ StoreInit
  /\ token = NoToken
  /\ screen \in {"register", "forgot", "reset"}
  /\ reg = RegisterInitial
  /\ forgot = ForgotPasswordInitial
  /\ reset \in {ResetPasswordInitial(t) :
                  t \in IF screen = "reset" THEN ResetTokens ELSE {""}}
  /\ nav = [NoNavigation EXCEPT !.path = ScreenPath(screen)]

\* what the visitor types: emails, OTP keystrokes and pastes, passwords
EmailInputs == {"", "a@b.c", "d@e.f", "a@b"}
OtpIndexes == 0..(OtpLength - 1)
OtpKeyInputs == {"", "1", "a", "12"}
OtpPasteInputs == {"111111", " 111111 ", "11111", "11111a"}
ForgotEmailInputs == {"", "a@b.c", "a@b", "a b@c.d"}
ResetInputs ==
  {<<"password", "Abcdef1@">>, <<"password", "abcdefgh">>, <<"password", "Ab1@">>,
   <<"confirmPassword", "Abcdef1@">>, <<"confirmPassword", "abcdefgh">>}

NextForms ==
  \/ \E value \in EmailInputs : RegisterHandleChange("email", value)
  \/ HandleSendVerification
  \/ \E r \in reg.sends : SendVerificationResponse(r)
  \/ \E index \in OtpIndexes, value \in OtpKeyInputs : HandleOtpChange(index, value)
  \/ \E text \in OtpPasteInputs : HandleOtpPaste(text)
  \/ HandleVerifyOtp
  \/ \E r \in reg.confirms : VerifyOtpResponse(r)
  \/ CloseOtpModal
  \/ \E value \in ForgotEmailInputs : ForgotSetEmail(value)
  \/ ForgotHandleSubmit
  \/ \E r \in forgot.requests : ForgotResponse(r)
  \/ ResetMountEffect
  \/ \E input \in ResetInputs : ResetHandleChange(input[1], input[2])
  \/ ResetHandleSubmit
  \/ \E r \in reset.requests : ResetResponse(r)
  \/ ResetRedirectToLogin
  \/ ResetHandleBack

SpecForms == InitForms /\ [][NextForms]_vars

(* ------------------- the fields of the Register form ------------------ *)
\* what the visitor types into the fields of the registration form
FieldInputs ==
  {<<"fullName", "Ann">>, <<"email", "a@b.c">>, <<"email", "d@e.f">>,
   <<"phoneNumber", "+1111111111">>, <<"location", "Kigali">>,
   <<"password", "Abcdef1@">>, <<"confirmPassword", "Abcdef1@">>}

\* the items of the language Select
LanguageItems == {"en", "fr", "rw"}

\* the registration form with all its fields, and the email verification
NextFields ==
  \/ \E input \in FieldInputs : RegisterHandleChange(input[1], input[2])
  \/ \E value \in LanguageItems : HandleLanguageChange(value)
  \/ HandleSendVerification
  \/ \E r \in reg.sends : SendVerificationResponse(r)
  \/ HandleOtpPaste("111111")
  \/ HandleVerifyOtp
  \/ \E r \in reg.confirms : VerifyOtpResponse(r)
  \/ CloseOtpModal

SpecFields == InitRegister /\ [][NextFields]_vars

(* ------------------------- overlapping calls --------------------------- *)
\* either the store with no token, where logins are dispatched, or the
\* Register screen with its email verification
InitOverlap ==
  /\ StoreInit
  /\ token = NoToken
  /\ screen \in {"none", "register"}
  /\ reg = RegisterInitial
  /\ forgot = ForgotPasswordInitial
  /\ reset = ResetPasswordInitial("")
  /\ nav = IF screen = "register"
             THEN [NoNavigation EXCEPT !.path = ScreenPath("register")]
             ELSE NoNavigation

\* logins dispatched while others are in flight; send and confirm requests of
\* the email verification
NextOverlap ==
  \/ \E s \in Slots, e \in Emails :
       screen = "none" /\ DispatchLogin(s, e) /\ UNCHANGED uiVars
  \/ \E s \in Slots : LoginResponse(s) /\ UNCHANGED uiVars
  \/ \E s \in Slots : LoginProfileResponse(s) /\ UNCHANGED uiVars
  \/ \E value \in EmailInputs : RegisterHandleChange("email", value)
  \/ HandleSendVerification
  \/ \E r \in reg.sends : SendVerificationResponse(r)
  \/ HandleOtpPaste("111111")
  \/ HandleVerifyOtp
  \/ \E r \in reg.confirms : VerifyOtpResponse(r)
  \/ CloseOtpModal

SpecOverlap == InitOverlap /\ [][NextOverlap]_vars

(* ------------------ the password gate of ResetPassword ----------------- *)
\* n copies of the character c
RECURSIVE Repeat(_, _)
Repeat(c, n) == IF n = 0 THEN "" ELSE c \o Repeat(c, n - 1)

\* the passwords typed into the reset form: any choice of a lowercase letter,
\* an uppercase letter, a digit, a character of [@$!%*?&] and a character
\* outside the pattern's alphabet, padded to different lengths; and the
\* passwords the specification names
PasswordSamples ==
  {lo \o up \o di \o sp \o ot \o Repeat(c, n) :
     lo \in {"", "a"}, up \in {"", "B"}, di \in {"", "1"}, sp \in {"", "@", "!"},
     ot \in {"", "#", " "}, c \in {"x", "7"}, n \in 0..MaxFill}
  \cup {"Str0ng!Pass", "weakpass", "abc", "Abcdef12"}

\* a visitor opens a reset link that carries a token
InitPassword ==
  /\ StoreInit
  /\ token = NoToken
  /\ screen = "reset"
  /\ reg = RegisterInitial
  /\ forgot = ForgotPasswordInitial
  /\ reset = ResetPasswordInitial("reset-token")
  /\ nav = [NoNavigation EXCEPT !.path = ScreenPath("reset")]

\* the visitor types one candidate password, retypes it as confirmation and
\* submits
NextPassword ==
  \/ ResetMountEffect
  \/ \E p \in PasswordSamples :
       reset.formData.password = "" /\ ResetHandleChange("password", p)
  \/ /\ reset.formData.confirmPassword # reset.formData.password
     /\ ResetHandleChange("confirmPassword", reset.formData.password)
  \/ ResetHandleSubmit
  \/ \E r \in reset.requests : ResetResponse(r)

SpecPassword == InitPassword /\ [][NextPassword]_vars

(* ===================== ProtectedRoute and Login ======================== *)
\* the paths whose element is wrapped in ProtectedRoute
ProtectedPaths == {"/dashboard", "/cases"}

\* ProtectedRoute takes isAuthenticated from useAuth(), and useAuth is the
\* default export of the auth slice, which is authSlice.reducer: the guard
\* calls the reducer without state and action instead of reading the store.
\* The reducer either throws on the missing action or returns the state it
\* was given, that is initialState as evaluated when the module was loaded.
UseAuthOutcomes == {"throws", "initialState"}

\* the application is loaded on the landing page
InitGuard ==
  /\ StoreInit
  /\ screen = "app"
  /\ reg = RegisterInitial
  /\ forgot = ForgotPasswordInitial
  /\ reset = ResetPasswordInitial("")
  /\ nav \in {[path |-> "/", from |-> "none", shown |-> "landing", useAuth |-> u,
               loaded |-> isAuthenticated] : u \in UseAuthOutcomes}

\* Login: const from = location.state?.from?.pathname || "/dashboard"
LoginFrom == IF nav.from = "none" THEN "/dashboard" ELSE nav.from

\* navigate(to, {replace: true}) without state: the route of `to` renders next
NavigateTo(to) == nav' = [nav EXCEPT !.path = to, !.from = "none", !.shown = "pending"]

\* the visitor follows a link to a protected path or to /login; while a login
\* is in flight the visitor stays on the login screen
FollowLink(to) ==
  /\ screen = "app"
  /\ nav.shown \in {"landing", "children", "login"}
  /\ \A s \in Slots : thunks[s] = Idle
  /\ NavigateTo(to)
  /\ last' = Step("link", "sync", "event", "none", "none", NoToken, NoUser, "none")
  /\ StoreFrame
  /\ UNCHANGED <<screen, reg, forgot, reset>>

\* ProtectedRoute renders at a protected location
ProtectedRouteRender ==
  /\ screen = "app"
  /\ nav.path \in ProtectedPaths
  /\ nav.shown = "pending"
  /\ IF nav.useAuth = "throws"
       THEN \* the render fails: neither the children nor the redirect
            nav' = [nav EXCEPT !.shown = "error"]
       ELSE IF ~nav.loaded
         THEN \* <Navigate to="/login" state={{ from: location }} replace />
              nav' = [nav EXCEPT !.path = "/login", !.from = nav.path,
                                 !.shown = "pending"]
         ELSE \* <>{children}</>
              nav' = [nav EXCEPT !.shown = "children"]
  /\ last' = Step("ProtectedRoute", "sync", "render", "none", "none",
                  NoToken, NoUser, "none")
  /\ StoreFrame
  /\ UNCHANGED <<screen, reg, forgot, reset>>

\* Login renders, at its first render and whenever the store changes:
\* if (isAuthenticated) navigate(from, {replace: true})
LoginRender ==
  /\ screen = "app"
  /\ nav.path = "/login"
  /\ nav.shown = "pending" \/ isAuthenticated
  /\ IF isAuthenticated
       THEN NavigateTo(LoginFrom)
       ELSE nav' = [nav EXCEPT !.shown = "login"]
  /\ last' = Step("Login", "sync", "render", "none", "none", NoToken, NoUser, "none")
  /\ StoreFrame
  /\ UNCHANGED <<screen, reg, forgot, reset>>

\* Login.handleEmailLogin up to its await, for the email e typed in (0: the
\* email or the password is empty); the submit button is disabled while
\* loading
HandleEmailLogin(s, e) ==
  /\ screen = "app"
  /\ nav.path = "/login"
  /\ nav.shown = "login"
  /\ ~loading
  /\ IF e = 0
       THEN ClearError
       ELSE DispatchLogin(s, e)
  /\ UNCHANGED uiVars

\* the login request of handleEmailLogin resolves; a rejection makes unwrap()
\* throw, which the handler only logs
HandleEmailLoginResponse(s) ==
  /\ screen = "app"
  /\ LoginResponse(s)
  /\ UNCHANGED uiVars

\* the profile request of the login resolves; after a fulfilled login
\* unwrap() returns and the handler calls navigate(from, {replace: true})
HandleEmailLoginSettled(s) ==
  /\ screen = "app"
  /\ LoginProfileResponse(s)
  /\ IF last'.ev = "fulfilled" THEN NavigateTo(LoginFrom) ELSE UNCHANGED nav
  /\ UNCHANGED <<screen, reg, forgot, reset>>

\* Navbar.handleLogout up to its await
HandleLogout(s) ==
  /\ screen = "app"
  /\ nav.shown \in {"landing", "children"}
  /\ isAuthenticated
  /\ DispatchLogout(s)
  /\ UNCHANGED uiVars

\* the logout of Navbar.handleLogout settles: navigate("/") after unwrap()
HandleLogoutSettled(s) ==
  /\ screen = "app"
  /\ LogoutResponse(s)
  /\ IF last'.ev = "fulfilled"
       THEN nav' = [nav EXCEPT !.path = "/", !.from = "none", !.shown = "landing"]
       ELSE UNCHANGED nav
  /\ UNCHANGED <<screen, reg, forgot, reset>>

NextGuard ==
  \/ \E to \in ProtectedPaths \cup {"/login"} : FollowLink(to)
  \/ ProtectedRouteRender
  \/ LoginRender
  \/ \E s \in Slots, e \in {0} \cup Emails : HandleEmailLogin(s, e)
  \/ \E s \in Slots : HandleEmailLoginResponse(s)
  \/ \E s \in Slots : HandleEmailLoginSettled(s)
  \/ \E s \in Slots : HandleLogout(s)
  \/ \E s \in Slots : HandleLogoutSettled(s)

SpecGuard == InitGuard /\ [][NextGuard]_vars

(* ======================= properties of the auth slice =================== *)

\* C1: in every reachable auth state, isAuthenticated implies that the Token
\* Store holds a non-expired token and that user is populated or its
\* population is in flight (loading).
C1_AuthenticatedHasValidTokenAndUser ==
  isAuthenticated =>
    /\ token # NoToken
    /\ ~isTokenExpired(token)
    /\ (user # NoUser \/ loading)

\* C2: checkAuth() dispatched while the Token Store is empty ends rejected in
\* the same step, issues no request and starts no thunk, and leaves
\* isAuthenticated=false, user=null, loading=false and the Token Store empty.
C2_CheckAuthNoToken ==
  [][(token = NoToken /\ last'.kind = "checkAuth" /\ last'.from = "dispatch") =>
       /\ last'.ev = "rejected"
       /\ last'.req = "none"
       /\ thunks' = thunks
       /\ ~isAuthenticated'
       /\ user' = NoUser
       /\ ~loading'
       /\ token' = NoToken]_vars

C2_Witness ==
  /\ last.kind = "checkAuth"
  /\ last.from = "dispatch"
  /\ last.ev = "rejected"
  /\ error = "No authentication token found"
  /\ token = NoToken

\* C3: when the refresh request of a checkAuth() that found an expired token
\* fails, the checkAuth ends rejected with isAuthenticated=false, user=null
\* and an empty Token Store.
C3_CheckAuthRefreshFails ==
  (last.kind = "checkAuth" /\ last.from = "refresh" /\ last.resp = "err") =>
    /\ last.ev = "rejected"
    /\ ~isAuthenticated
    /\ user = NoUser
    /\ token = NoToken

C3_Witness ==
  /\ last.kind = "checkAuth"
  /\ last.from = "refresh"
  /\ last.resp = "err"
  /\ last.tok # NoToken
  /\ last.tok.exp <= now

\* C4: a checkAuth() that found an expired token ends fulfilled only after a
\* refresh that returned a token: the Token Store then holds that token and
\* user is the profile of its subject; after a refresh that failed or returned
\* no token, the checkAuth ends with the token and the auth state cleared.
C4_CheckAuthExpired ==
  /\ (last.kind = "checkAuth" /\ last.ev = "fulfilled"
        /\ last.from \in {"profileNew", "profileOld"}) =>
       /\ last.from = "profileNew"
       /\ token = last.tok
       /\ user.email = last.tok.sub
  /\ (last.kind = "checkAuth" /\ last.ev \in {"fulfilled", "rejected"}
        /\ last.from \in {"refresh", "profileOld"}) =>
       /\ token = NoToken
       /\ ~isAuthenticated
       /\ user = NoUser

\* C5: a checkAuth() that found a valid token ends with isAuthenticated=true
\* and user the profile of the token's subject when the profile request
\* succeeds, and with an empty Token Store, isAuthenticated=false and
\* user=null when it fails.
C5_CheckAuthValid ==
  /\ (last.kind = "checkAuth" /\ last.from = "profile" /\ last.resp = "ok") =>
       /\ last.ev = "fulfilled"
       /\ isAuthenticated
       /\ user = last.citizen
       /\ user.email = last.tok.sub
  /\ (last.kind = "checkAuth" /\ last.from = "profile" /\ last.resp = "err") =>
       /\ last.ev = "rejected"
       /\ token = NoToken
       /\ ~isAuthenticated
       /\ user = NoUser

C5_Witness ==
  /\ last.kind = "checkAuth"
  /\ last.from = "profile"
  /\ last.resp = "ok"
  /\ isAuthenticated
  /\ user # NoUser
  /\ user.email = last.tok.sub

\* C6: when a login is fulfilled, the Token Store holds the access token that
\* login returned, isAuthenticated=true, user is the fetched profile,
\* loading=false and error=null.
C6_LoginFulfilled ==
  (last.kind = "login" /\ last.ev = "fulfilled") =>
    /\ token = last.tok
    /\ isAuthenticated
    /\ user = last.citizen
    /\ ~loading
    /\ error = Null

\* C7: when the login request or the profile request after it fails, the login
\* ends rejected, error is the server's message or else "Invalid credentials",
\* isAuthenticated=false, user=null, and the Token Store is empty (no token of
\* the failed attempt remains).
C7_LoginFails ==
  (last.kind = "login" /\ last.resp = "err") =>
    /\ last.ev = "rejected"
    /\ error = (IF last.msg = "Server message" THEN last.msg ELSE "Invalid credentials")
    /\ ~isAuthenticated
    /\ user = NoUser
    /\ token = NoToken

C7_Witness ==
  /\ last.kind = "login"
  /\ last.from = "profile"
  /\ last.resp = "err"
  /\ last.tok # NoToken
  /\ error = "Invalid credentials"

\* C8: when a refresh() is rejected (the refresh request failed, returned no
\* token, or the "me" request failed), the Token Store is empty,
\* isAuthenticated=false and user=null.
C8_RefreshRejected ==
  (last.kind = "refresh" /\ last.ev = "rejected") =>
    /\ token = NoToken
    /\ ~isAuthenticated
    /\ user = NoUser

C10_RegisterCitizenFrame ==
  [][last'.kind = "registerCitizen" =>
       UNCHANGED <<isAuthenticated, user, token>>]_vars

C10_Witness ==
  /\ last.kind = "registerCitizen"
  /\ last.ev = "fulfilled"
  /\ ~isAuthenticated
  /\ user = NoUser
  /\ token = NoToken

\* C11: for checkAuth, login, refresh, registerCitizen and logout, the step
\* that dispatches the transition leaves loading=true and error=null, and the
\* step that settles it (fulfilled or rejected) leaves loading=false.
C11_LoadingLifecycle ==
  LET Transitions == {"checkAuth", "login", "refresh", "registerCitizen", "logout"}
  IN /\ (last.kind \in Transitions /\ last.from = "dispatch" /\ last.ev = "await") =>
          (loading /\ error = Null)
     /\ (last.kind \in Transitions /\ last.ev \in {"fulfilled", "rejected"}) =>
          ~loading


(* ==================== properties of the form screens =================== *)

\* one of the four blocking conditions of the registration form holds
RegistrationBlocked ==
  \/ reg.formData.email = "" /\ reg.formData.phoneNumber = ""
  \/ reg.formData.email # "" /\ ~reg.isEmailVerified
  \/ Len(reg.formData.password) < MinPasswordLength
  \/ reg.formData.confirmPassword # reg.formData.password

\* C12: Register's validateForm returns false whenever email and phone are
\* both empty, or an email is supplied while isEmailVerified is false, or the
\* password has fewer than 8 characters, or confirmPassword differs from
\* password; a step of handleRegister that dispatched the registration
\* request was taken with none of these holding, so a request with a
\* non-empty email is sent only while isEmailVerified is true.
C12_RegistrationGate ==
  screen = "register" =>
    /\ RegistrationBlocked => ~RegisterValidateForm(reg.formData, reg.isEmailVerified)
    /\ (last.kind = "handleRegister" /\ last.ev = "await") =>
         /\ ~RegistrationBlocked
         /\ reg.formData.email # "" => reg.isEmailVerified

\* C12 witness: handleRegister returned without a request because the only
\* thing wrong with the form is that its email is not verified
C12_Witness ==
  /\ last.kind = "handleRegister"
  /\ last.ev = "return"
  /\ reg.formData.email # ""
  /\ ~reg.isEmailVerified
  /\ RegisterValidateForm(reg.formData, TRUE)
  /\ \A s \in Slots : thunks[s] = Idle

\* the pattern non-whitespace "@" non-whitespace "." non-whitespace
MatchesEmailPattern(email) ==
  /\ \A k \in 1..Len(email) : Char(email, k) \notin Whitespace
  /\ \E i, j \in 1..Len(email) :
       /\ Char(email, i) = "@"
       /\ Char(email, j) = "."
       /\ 1 < i /\ i + 1 < j /\ j < Len(email)

\* C13: a step of handleSendVerification or of ForgotPassword.handleSubmit
\* taken with an empty or malformed email, and a step of
\* ResetPassword.handleSubmit taken with a failing password pair or without
\* a token, issues no request and leaves the requests in flight as they
\* were; so every request in flight carries a well-formed email, or a token
\* and a passing password pair.
C13_NoRequestAfterLocalFailure ==
  [][/\ ( /\ last'.kind = "handleSendVerification" /\ last'.from = "event"
          /\ ~MatchesEmailPattern(reg.formData.email) )
          => (last'.req = "none" /\ reg'.sends = reg.sends)
     /\ ( /\ last'.kind = "forgotSubmit" /\ last'.from = "event"
          /\ ~MatchesEmailPattern(forgot.email) )
          => (last'.req = "none" /\ forgot'.requests = forgot.requests)
     /\ ( /\ last'.kind = "resetSubmit" /\ last'.from = "event"
          /\ (ResetValidationError(reset.formData) # Null \/ reset.token = "") )
          => (last'.req = "none" /\ reset'.requests = reset.requests)
     /\ \A r \in reg'.sends \cup forgot'.requests : MatchesEmailPattern(r.email)
     /\ \A r \in reset'.requests :
          /\ r.token # ""
          /\ ResetValidationError([password |-> r.password,
                                   confirmPassword |-> r.confirmPassword]) = Null
    ]_vars

\* C13 witness: handleSendVerification has just returned without a request
\* for a non-empty email that does not match the pattern
C13_Witness ==
  /\ last.kind = "handleSendVerification"
  /\ last.ev = "return"
  /\ reg.formData.email # ""
  /\ ~MatchesEmailPattern(reg.formData.email)
  /\ reg.sends = {}

\* C14: when the confirm request of handleVerifyOtp resolves, the email is
\* marked verified and the OTP input closed if the response is a success
\* with the message exactly "Email verified."; for any other message or an
\* error, isEmailVerified and showOtpModal are left as they were and the
\* message (or the fallback "Invalid OTP" / "Verification failed") becomes
\* the verification error.
C14_OtpVerifiedOnlyOnExactMessage ==
  [][(last'.kind = "handleVerifyOtp" /\ last'.from = "/mail/confirm") =>
       IF last'.resp = "ok" /\ last'.msg = "Email verified."
         THEN reg'.isEmailVerified /\ ~reg'.showOtpModal
         ELSE /\ reg'.isEmailVerified = reg.isEmailVerified
              /\ reg'.showOtpModal = reg.showOtpModal
              /\ reg'.verificationError =
                   IF last'.msg \notin {Undefined, ""} THEN last'.msg
                   ELSE IF last'.resp = "ok" THEN "Invalid OTP"
                   ELSE "Verification failed"
    ]_vars

\* C14 witness: a confirm request has just resolved with "Email verified."
\* and the email is verified, the OTP input closed
C14_Witness ==
  /\ last.kind = "handleVerifyOtp"
  /\ last.resp = "ok"
  /\ last.msg = "Email verified."
  /\ reg.isEmailVerified
  /\ ~reg.showOtpModal

\* C15: when a /mail/send request resolves, as a success or as an error,
\* with a message containing "already verified", the email is marked verified
\* and that response does not open the OTP input (showOtpModal is left as it
\* was).
C15_AlreadyVerifiedShortCircuit ==
  [][( /\ last'.kind = "handleSendVerification"
       /\ last'.from = "/mail/send"
       /\ last'.msg # Undefined
       /\ Includes(last'.msg, "already verified") )
       => (reg'.isEmailVerified /\ reg'.showOtpModal = reg.showOtpModal)
    ]_vars

\* C15 witness: a send request has just failed with an "already verified"
\* message; the email is verified and the OTP input is closed
C15_Witness ==
  /\ last.kind = "handleSendVerification"
  /\ last.resp = "err"
  /\ last.msg = "Email already verified."
  /\ reg.isEmailVerified
  /\ ~reg.showOtpModal

\* C16: isEmailVerified becomes true only in a step in which a confirm
\* request resolves successfully, a send request of this screen having
\* succeeded before, or in which a send request resolves with an "already
\* verified" message; the OTP input opens only in a step in which a send
\* request resolves successfully; and a confirm request is only issued after
\* a send request has succeeded.
C16_VerificationOrder ==
  [][/\ (~reg.isEmailVerified /\ reg'.isEmailVerified) =>
          \/ /\ last'.kind = "handleVerifyOtp"
             /\ last'.from = "/mail/confirm"
             /\ last'.resp = "ok"
             /\ reg.sendSucceeded
          \/ /\ last'.kind = "handleSendVerification"
             /\ last'.from = "/mail/send"
             /\ last'.msg # Undefined
             /\ Includes(last'.msg, "already verified")
     /\ (~reg.showOtpModal /\ reg'.showOtpModal) =>
          /\ last'.kind = "handleSendVerification"
          /\ last'.from = "/mail/send"
          /\ last'.resp = "ok"
     /\ (reg'.confirms # reg.confirms /\ last'.from = "event") =>
          /\ last'.kind = "handleVerifyOtp"
          /\ reg.sendSucceeded
          /\ reg.showOtpModal
    ]_vars

\* C16 witness: a confirm request issued after a successful send has just
\* resolved successfully and the email is verified
C16_Witness ==
  /\ last.kind = "handleVerifyOtp"
  /\ last.from = "/mail/confirm"
  /\ last.resp = "ok"
  /\ reg.sendSucceeded
  /\ reg.isEmailVerified
  /\ reg.sends = {}
  /\ reg.verificationError = ""

\* C17: the OTP buffer is reset to six empty entries when the OTP modal is
\* closed and when verification succeeds: whenever the modal is closed, the
\* buffer holds six empty entries.
C17_OtpBufferReset ==
  (screen = "register" /\ ~reg.showOtpModal) =>
     reg.otp = [i \in 1..OtpLength |-> ""]

\* C19: on the reset-password screen the token is judged invalid by the
\* mount effect when the link carries no token and by a failed reset
\* request whose message contains "expired" or "invalid"; from then on, as
\* long as the screen is mounted, it stays judged invalid, no reset request
\* is issued and none is in flight.
C19_InvalidTokenIsTerminal ==
  [][/\ (last'.kind = "resetMount" /\ reset.token = "") => ~reset'.isTokenValid
     /\ ( /\ last'.kind = "resetSubmit" /\ last'.resp = "err"
          /\ last'.msg # Undefined
          /\ (Includes(last'.msg, "expired") \/ Includes(last'.msg, "invalid")) )
          => ~reset'.isTokenValid
     /\ (screen = "reset" /\ ~reset.isTokenValid) =>
          /\ reset.requests = {}
          /\ last'.req = "none"
          /\ screen' = "reset" => (~reset'.isTokenValid /\ reset'.requests = {})
    ]_vars

\* C19 witness: a reset request has just failed with "Token has expired";
\* the link is judged invalid although it carries a token and the form
\* holds a passing password pair
C19_Witness ==
  /\ screen = "reset"
  /\ last.kind = "resetSubmit"
  /\ last.resp = "err"
  /\ last.msg = "Token has expired"
  /\ ~reset.isTokenValid
  /\ reset.token # ""
  /\ ResetValidationError(reset.formData) = Null

\* C20: the forgot-password screen turns to the "sent" display only in a
\* step in which a request for an email matching the pattern resolves as a
\* success; a request that fails leaves the form displayed and sets error to
\* the server's message or "Failed to send reset email"; and after every
\* step in which a request resolves, isLoading is false.
C20_ForgotPasswordOutcome ==
  [][/\ (~forgot.isEmailSent /\ forgot'.isEmailSent) =>
          /\ last'.kind = "forgotSubmit"
          /\ last'.from = "/password/forgot-password"
          /\ last'.resp = "ok"
          /\ \E r \in forgot.requests \ forgot'.requests :
               r.email # "" /\ MatchesEmailPattern(r.email)
     /\ (last'.kind = "forgotSubmit" /\ last'.from = "/password/forgot-password") =>
          /\ ~forgot'.isLoading
          /\ last'.resp = "err" =>
               /\ ~forgot'.isEmailSent
               /\ forgot'.error = IF last'.msg \in {Undefined, ""}
                                    THEN "Failed to send reset email"
                                    ELSE last'.msg
    ]_vars

\* C20 witness: a request for a valid email has just resolved as a success;
\* the "sent" display is shown and isLoading is false
C20_Witness ==
  /\ screen = "forgot"
  /\ last.kind = "forgotSubmit"
  /\ last.resp = "ok"
  /\ forgot.isEmailSent
  /\ ~forgot.isLoading
  /\ forgot.error = Null

\* C18: when ProtectedRoute renders at a protected location it renders its
\* children if isAuthenticated is true, and otherwise redirects to /login
\* with the location recorded as from; and a step of the Login flow that
\* navigates for an authenticated user goes to the recorded location, or
\* to /dashboard when none was recorded.
C18_RouteGuard ==
  [][/\ last'.kind = "ProtectedRoute" =>
          IF isAuthenticated
            THEN nav'.path = nav.path /\ nav'.shown = "children"
            ELSE nav'.path = "/login" /\ nav'.from = nav.path
     /\ ( /\ nav.path = "/login"
          /\ nav'.path # "/login"
          /\ last'.kind \in {"Login", "login"} ) =>
          /\ isAuthenticated'
          /\ nav'.path = IF nav.from = "none" THEN "/dashboard" ELSE nav.from
    ]_vars

\* at least 8 characters, with a lowercase letter, an uppercase letter, a
\* digit and a special character
MeetsPasswordPolicy(password) ==
  /\ Len(password) >= MinPasswordLength
  /\ \E i \in 1..Len(password) : Char(password, i) \in LowerLetters
  /\ \E i \in 1..Len(password) : Char(password, i) \in UpperLetters
  /\ \E i \in 1..Len(password) : Char(password, i) \in Digits
  /\ \E i \in 1..Len(password) : Char(password, i) \in SpecialChars

\* C21: with a matching confirmation (and a token), ResetPassword.handleSubmit
\* accepts the password and issues the request if and only if the password
\* has at least 8 characters and contains a lowercase letter, an uppercase
\* letter, a digit and a special character; "Str0ng!Pass" is accepted and
\* "weakpass" is rejected.
C21_ResetPasswordGate ==
  ( /\ screen = "reset"
    /\ last.kind = "resetSubmit"
    /\ last.from = "event"
    /\ reset.token # ""
    /\ reset.formData.confirmPassword = reset.formData.password ) =>
      /\ (last.ev = "await") <=> MeetsPasswordPolicy(reset.formData.password)
      /\ reset.formData.password = "Str0ng!Pass" => last.ev = "await"
      /\ reset.formData.password = "weakpass" => last.ev = "return"

\* 1 for a criterion that is met, 0 otherwise
Met(b) == IF b THEN 1 ELSE 0

\* how many of the five strength criteria the password meets
CriteriaMet(password) ==
  Met(\E i \in 1..Len(password) : Char(password, i) \in UpperLetters)
  + Met(\E i \in 1..Len(password) : Char(password, i) \in LowerLetters)
  + Met(\E i \in 1..Len(password) : Char(password, i) \in Digits)
  + Met(\E i \in 1..Len(password) : Char(password, i) \in SpecialChars)
  + Met(Len(password) >= MinPasswordLength)

\* C22: the strength shown for the typed password is weak when it meets 0 to
\* 2 of the five criteria (uppercase, lowercase, digit, special character of
\* @$!%*?&, length at least 8), medium when it meets 3 or 4 and strong only
\* when it meets all 5; "abc" rates weak and "Abcdef12" medium.
C22_PasswordStrength ==
  (screen = "reset" /\ reset.passwordStrength # Null) =>
    LET n == CriteriaMet(reset.formData.password) IN
      /\ n \in 0..2 <=> reset.passwordStrength = "weak"
      /\ n \in 3..4 <=> reset.passwordStrength = "medium"
      /\ n = 5 <=> reset.passwordStrength = "strong"
      /\ reset.formData.password = "abc" => reset.passwordStrength = "weak"
      /\ reset.formData.password = "Abcdef12" => reset.passwordStrength = "medium"

C22_Witness ==
  /\ screen = "reset"
  /\ reset.formData.password = "Abcdef12"
  /\ reset.passwordStrength = "medium"

\* the error a rejected transition surfaces: the rejection payload, which the
\* reducers store in state.error (registerCitizen has no reducer, its payload
\* reaches only the caller)
SurfacedError == IF last.kind = "registerCitizen" THEN last.msg ELSE error

\* C24: whenever checkAuth, login, refresh, registerCitizen, fetchCurrentUser
\* or logout is rejected, the error it surfaces is a non-empty string: the
\* server's message when the failed request carried one, a static fallback
\* message otherwise.
C24_RejectionSurfacesMessage ==
  (/\ last.kind \in {"checkAuth", "login", "refresh", "registerCitizen",
                    "fetchCurrentUser", "logout"}
   /\ last.ev = "rejected") =>
    /\ SurfacedError \notin {Null, Undefined, ""}
    /\ (last.resp = "err" /\ last.msg \notin {Undefined, "", "none"}) =>
         SurfacedError = last.msg

\* the step just taken is a /mail/send request resolving as a failure (an
\* error that does not say "already verified")
SendFailed ==
  /\ last'.kind = "handleSendVerification"
  /\ last'.from = "/mail/send"
  /\ last'.resp = "err"
  /\ ~(last'.msg # Undefined /\ Includes(last'.msg, "already verified"))

\* the step just taken is a /mail/confirm request resolving as a failure (an
\* error, or a response other than "Email verified.")
ConfirmFailed ==
  /\ last'.kind = "handleVerifyOtp"
  /\ last'.from = "/mail/confirm"
  /\ ~(last'.resp = "ok" /\ last'.msg = "Email verified.")

\* C25: a failed /mail/send leaves the OTP input as it was (closed for a first
\* send, open for a resend) and a failed /mail/confirm leaves it open as
\* sent; either failure leaves the email's verification flag as it was
\* (unverified), records a non-empty verification error and ends with the
\* in-progress flag (verificationLoading, isVerifying) false.
C25_FailedVerificationStep ==
  [][/\ SendFailed =>
          /\ reg'.showOtpModal = reg.showOtpModal
          /\ reg'.isEmailVerified = reg.isEmailVerified
          /\ reg'.verificationError \notin {"", Null, Undefined}
          /\ ~reg'.verificationLoading
     /\ ConfirmFailed =>
          /\ reg'.showOtpModal = reg.showOtpModal
          /\ reg'.isEmailVerified = reg.isEmailVerified
          /\ reg'.verificationError \notin {"", Null, Undefined}
          /\ ~reg'.isVerifying
    ]_vars

\* C25 witness: a resend has just failed without a server message: the OTP
\* input is still open, the email unverified, the fallback error recorded
C25_Witness ==
  /\ last.kind = "handleSendVerification"
  /\ last.from = "/mail/send"
  /\ last.resp = "err"
  /\ last.msg = Undefined
  /\ reg.showOtpModal
  /\ ~reg.isEmailVerified
  /\ reg.verificationError = "Failed to send verification email"
  /\ ~reg.verificationLoading

\* the emails of the verification requests that the step just taken resolved
ResolvedFor ==
  {r.email : r \in (reg.sends \ reg'.sends)}
  \cup {r.email : r \in (reg.confirms \ reg'.confirms)}

\* C26: the email is marked verified only for the email the verification was
\* obtained for: a step that sets isEmailVerified resolves a /mail/send or
\* /mail/confirm request that was made for the email now in the form, so a
\* response resolving after the email field was changed does not mark the new
\* email verified.
C26_VerifiedEmailIsFormEmail ==
  [][(~reg.isEmailVerified /\ reg'.isEmailVerified) =>
       ResolvedFor = {reg'.formData.email}
    ]_vars

\* the state of the email verification of the registration form
VerificationState(r) ==
  <<r.isEmailVerified, r.showOtpModal, r.otp, r.verificationError,
    r.verificationLoading, r.isVerifying, r.sends, r.confirms>>

\* the fields of the registration form other than the email
OtherFields ==
  {"fullName", "phoneNumber", "languagePreference", "location", "password",
   "confirmPassword"}

\* C27: a change of the email field of the registration form leaves the email
\* unverified; a change of any other field (name, phone, language, location,
\* password, confirmation) leaves the verification state as it was.
C27_OnlyEmailResetsVerification ==
  [][(last'.kind \in {"handleChange", "languageChange"}) =>
       /\ reg'.formData.email # reg.formData.email => ~reg'.isEmailVerified
       /\ (\E f \in OtherFields : reg'.formData[f] # reg.formData[f]) =>
            VerificationState(reg') = VerificationState(reg)
    ]_vars

\* C27 witness: the email was verified and the language was then changed: the
\* email is still verified
C27_Witness ==
  /\ last.kind = "languageChange"
  /\ reg.formData.languagePreference = "rw"
  /\ reg.formData.email = "a@b.c"
  /\ reg.isEmailVerified

\* the OTP buffer has six entries, each empty or one decimal digit
OtpWellFormed ==
  /\ DOMAIN reg.otp = 1..OtpLength
  /\ \A i \in 1..OtpLength : reg.otp[i] = "" \/ reg.otp[i] \in Digits

\* str is exactly six decimal digits
SixDigits(str) ==
  Len(str) = OtpLength /\ \A i \in 1..Len(str) : Char(str, i) \in Digits

\* C28: the OTP buffer always has exactly 6 entries, each empty or a single
\* decimal digit; a keystroke whose value is neither empty nor one digit
\* leaves the buffer unchanged; a paste that is not exactly 6 digits after
\* trimming leaves it unchanged and a paste of exactly 6 digits sets all six
\* entries at once; a /mail/confirm request is sent only when all six entries
\* are filled.
C28_OtpBuffer ==
  /\ []OtpWellFormed
  /\ [][/\ last'.kind = "handleOtpChange" =>
             \A index \in OtpIndexes, value \in OtpKeyInputs :
               (value # "" /\ value \notin Digits /\ HandleOtpChange(index, value)) =>
                 reg'.otp = reg.otp
        /\ last'.kind = "handleOtpPaste" =>
             \A text \in OtpPasteInputs :
               HandleOtpPaste(text) =>
                 IF SixDigits(Trim(text))
                   THEN reg'.otp = [i \in 1..OtpLength |-> Char(Trim(text), i)]
                   ELSE reg'.otp = reg.otp
        /\ (last'.kind = "handleVerifyOtp" /\ last'.req = "/mail/confirm") =>
             \A i \in 1..OtpLength : reg.otp[i] # ""
       ]_vars

\* C28 witness: a confirm request has just been sent, for a buffer of six
\* digits
C28_Witness ==
  /\ last.kind = "handleVerifyOtp"
  /\ last.req = "/mail/confirm"
  /\ \A i \in 1..OtpLength : reg.otp[i] = "1"

\* C23: overlapping calls of one operation are not ordered by start time and
\* none of their responses is discarded: whatever else is in flight or has
\* settled, a login that is fulfilled leaves the session authenticated as its
\* own citizen, a login that is rejected leaves it unauthenticated with its
\* own error, and a /mail/send or /mail/confirm response leaves the
\* verification as that response says; so the state after all have settled
\* is the one written by the response that resolved last.
C23_LastResponseWins ==
  [][/\ (last'.kind = "login" /\ last'.ev = "fulfilled") =>
          /\ isAuthenticated'
          /\ user' = last'.citizen
          /\ ~loading'
          /\ error' = Null
     /\ (last'.kind = "login" /\ last'.ev = "rejected") =>
          /\ ~isAuthenticated'
          /\ user' = NoUser
          /\ ~loading'
          /\ error' = OrElse(last'.msg, "Invalid credentials")
     /\ (last'.kind = "handleSendVerification" /\ last'.from = "/mail/send") =>
          /\ ~reg'.verificationLoading
          /\ IF last'.msg # Undefined /\ Includes(last'.msg, "already verified")
               THEN reg'.isEmailVerified
               ELSE IF last'.resp = "err"
                 THEN reg'.verificationError =
                        OrElse(last'.msg, "Failed to send verification email")
                 ELSE last'.msg \notin {Undefined, ""} => reg'.showOtpModal
     /\ (last'.kind = "handleVerifyOtp" /\ last'.from = "/mail/confirm") =>
          /\ ~reg'.isVerifying
          /\ IF last'.resp = "ok" /\ last'.msg = "Email verified."
               THEN reg'.isEmailVerified /\ ~reg'.showOtpModal
               ELSE reg'.verificationError =
                      OrElse(last'.msg, IF last'.resp = "ok" THEN "Invalid OTP"
                                        ELSE "Verification failed")
    ]_vars

\* C23 witness: two logins overlapped; the one for citizen 2 stored its token
\* after the one for citizen 1 did, the profile of citizen 1 resolved last:
\* both have settled and the session is that of citizen 1
C23_Witness ==
  /\ \A s \in Slots : thunks[s] = Idle
  /\ last.kind = "login"
  /\ last.ev = "fulfilled"
  /\ last.citizen.email = 1
  /\ token.sub = 2
  /\ isAuthenticated
  /\ user.email = 1

====
